---- MODULE Spec2Model ----
(***************************************************************************)
(* A model of the Polynomial class (src/src/polynomial.py) and of the      *)
(* helpers of src/src/tools.py: polynomials over the integers modulo a     *)
(* base, with cached degree and leading coefficient, the combining         *)
(* operators, schoolbook division and the modular inverse.                 *)
(*                                                                         *)
(* A polynomial object is a record                                         *)
(*   [base, coefs, deg, lc, carries, err]                                  *)
(* coefs is the numpy array (index k of the array is coefs[k + 1]), deg    *)
(* and lc are the cached fields, carries is None or a list.  An operation  *)
(* that raises yields a record whose err names the exception; an           *)
(* expression one of whose operands raised raises the same exception.      *)
(***************************************************************************)
EXTENDS Integers, Sequences, FiniteSets, TLC

VARIABLES
    base,       \* the base the client works in
    A, B, C,    \* the client's polynomial objects (C: the third operand)
    pc,         \* where the client is: start, idle, set_done, div, done
    op,         \* the operation that ran last
    res, res2,  \* what the last operation returned (res2: a second value)
    exc,        \* the exception the last indexed write raised, "" if none
    key, val,   \* the arguments of the last indexed write
    old,        \* the object as it was before the last indexed write
    q, r, q_upd, r_upd, deg_r, deg_b, i, inv_lc_b,  \* locals of _slow_div
    unit, modulus, inv  \* arguments and outcome of the last unit_inv call

vars == <<base, A, B, C, pc, op, res, res2, exc, key, val, old,
          q, r, q_upd, r_upd, deg_r, deg_b, i, inv_lc_b, unit, modulus, inv>>

divVars == <<q, r, q_upd, r_upd, deg_r, deg_b, i, inv_lc_b>>
setVars == <<exc, key, val, old>>
invVars == <<unit, modulus, inv>>

----------------------------------------------------------------------------
(* Bounds of the model and constants of the program.                       *)

\* Longest coefficient list the client passes to the constructor.
MaxLen == 2
\* Iterations of the division loop the model follows.
MaxIter == 4
\* Largest modulus of a direct unit_inv call.
MaxMod == 7
\* The constructor's default base, the base of the documented scenarios.
DefaultBase == 10

\* Bases whose coefficient lists are enumerated exhaustively.
SmallBases == {2, 3}
\* The coefficient lists of the documented scenarios (base 10).
ScenarioInputs == {<<3, 2, 1>>, <<8>>, <<0, 0, 1>>, <<0, 1>>}

----------------------------------------------------------------------------
(* Python and numpy arithmetic.                                            *)

Abs(x) == IF x < 0 THEN -x ELSE x

Max(x, y) == IF x >= y THEN x ELSE y

\* Python's a // b: the floor of a / b, for either sign of b.
FloorDiv(x, y) == IF y > 0 THEN x \div y ELSE (-x) \div (-y)

\* Python's a % b for b > 0: the non-negative remainder.
PyMod(x, y) == x % y

\* [0] * n: the empty list when n <= 0.
Zeros(n) == [k \in 1..n |-> 0]

Reverse(s) == [k \in 1..Len(s) |-> s[Len(s) + 1 - k]]

\* np.trim_zeros(a, 'b'): the array without its trailing zeros.
RECURSIVE trim_zeros(_)
trim_zeros(s) ==
    IF s = <<>> THEN <<>>
    ELSE IF s[Len(s)] = 0 THEN trim_zeros(SubSeq(s, 1, Len(s) - 1))
    ELSE s

----------------------------------------------------------------------------
(* tools.py                                                                *)

\* The loop of unit_inv: the final <<t, r>>.
RECURSIVE unit_inv_loop(_, _, _, _)
unit_inv_loop(t, t_upd, rr, rr_upd) ==
    IF rr_upd = 0 THEN <<t, rr>>
    ELSE LET quo == FloorDiv(rr, rr_upd)
         IN unit_inv_loop(t_upd, t - quo * t_upd, rr_upd, rr - quo * rr_upd)

\* unit_inv(unit, b): [err, t]; err = "ValueError" when it raises.
unit_inv(u, b) ==
    LET fin == unit_inv_loop(0, 1, b, u)
        t == fin[1]
        rr == fin[2]
    IN  IF rr > 1 THEN [err |-> "ValueError", t |-> 0]
        ELSE [err |-> "", t |-> IF t < 0 THEN t + b ELSE t]

\* The assertions of check_objects: the bases match (the types always do).
check_objects(this, that) == that.base = this.base

\* The assertions of check_array.  np.array of an empty list has dtype
\* float64, so dtypeInt is FALSE for an empty list and TRUE for an integer
\* array, empty or not.
check_array(array, bs, dtypeInt) ==
    /\ dtypeInt
    /\ \A k \in 1..Len(array) : Abs(array[k]) < bs

----------------------------------------------------------------------------
(* polynomial.py                                                           *)

None == [set |-> FALSE, seq |-> <<>>]
Some(s) == [set |-> TRUE, seq |-> s]

\* What an expression that raised stands for.
Raise(name) ==
    [base |-> 0, coefs |-> <<>>, deg |-> -1, lc |-> 0, carries |-> None,
     err |-> name]

\* A variable that holds no object.
NoPoly == Raise("unset")

\* The dtype of np.array(list) for a list of integers.
ListDtypeInt(list) == list # <<>>

\* The body of __init__.
init(coefs, bs, reverse, carries) ==
    LET c0 == IF reverse THEN Reverse(coefs) ELSE coefs
        c1 == trim_zeros(c0)
        d == Len(c1) - 1
    IN  [base |-> bs, coefs |-> c1, deg |-> d,
         lc |-> IF d > 0 THEN c1[Len(c1)] ELSE 0,
         carries |-> carries, err |-> ""]

\* Polynomial(coefs, base=bs, reverse=reverse, carries=carries): the
\* constructor under its check_array decorator.
Polynomial(coefs, dtypeInt, bs, reverse, carries) ==
    IF ~check_array(coefs, bs, dtypeInt) THEN Raise("AssertionError")
    ELSE init(coefs, bs, reverse, carries)

\* __copy__: a new object from a copy of the array (an integer array).
copy(p) == Polynomial(p.coefs, TRUE, p.base, FALSE, p.carries)

\* __getitem__, for key >= 0.
getitem(p, k) == IF k <= p.deg THEN p.coefs[k + 1] ELSE 0

\* __setitem__: [p, err], the object afterwards and the exception raised.
\* coefs += [0] * n adds zeros in place and raises unless the list
\* broadcasts to the array's shape; the array never grows.
setitem(p, k, v) ==
    IF Abs(v) >= p.base THEN [p |-> p, err |-> "ValueError"]
    ELSE IF k <= p.deg
    THEN [p |-> [p EXCEPT !.coefs[k + 1] = v], err |-> ""]
    ELSE LET n == k - p.deg
             broadcasts == n = 1 \/ n = Len(p.coefs)
         IN  IF ~broadcasts THEN [p |-> p, err |-> "ValueError"]
             ELSE IF k >= Len(p.coefs) THEN [p |-> p, err |-> "IndexError"]
             ELSE [p |-> [p EXCEPT !.coefs[k + 1] = v, !.deg = k - 1, !.lc = v],
                   err |-> ""]

\* __add__ with the carry of index k stored at index k instead of k + 1.
add_carry_unshifted(self, other) ==
    IF self.err # "" THEN self
    ELSE IF other.err # "" THEN other
    ELSE IF ~check_objects(self, other) THEN Raise("AssertionError")
    ELSE LET new_len == Max(self.deg, other.deg) + 1
             v(k) == getitem(self, k) + getitem(other, k)
             new_coefs == [k \in 1..new_len |-> PyMod(v(k - 1), self.base)]
             carries == [k \in 1..(new_len + 1) |->
                           IF k = new_len + 1 THEN 0
                           ELSE FloorDiv(v(k - 1), self.base)]
         IN  Polynomial(new_coefs, ListDtypeInt(new_coefs), self.base, FALSE,
                        Some(carries))

\* __add__ under check_objects.
add(self, other) ==
    IF self.err # "" THEN self
    ELSE IF other.err # "" THEN other
    ELSE IF ~check_objects(self, other) THEN Raise("AssertionError")
    ELSE LET new_len == Max(self.deg, other.deg) + 1
             v(k) == getitem(self, k) + getitem(other, k)
             new_coefs == [k \in 1..new_len |-> PyMod(v(k - 1), self.base)]
             carries == [k \in 1..(new_len + 1) |->
                           IF k = 1 THEN 0 ELSE FloorDiv(v(k - 2), self.base)]
         IN  Polynomial(new_coefs, ListDtypeInt(new_coefs), self.base, FALSE,
                        Some(carries))

\* __sub__ under check_objects.
sub(self, other) ==
    IF self.err # "" THEN self
    ELSE IF other.err # "" THEN other
    ELSE IF ~check_objects(self, other) THEN Raise("AssertionError")
    ELSE LET new_len == Max(self.deg, other.deg) + 1
             v(k) == getitem(self, k) - getitem(other, k)
             new_coefs == [k \in 1..new_len |-> PyMod(v(k - 1), self.base)]
             carries == [k \in 1..(new_len + 2) |->
                           IF k = 1 \/ k = new_len + 2 THEN 0
                           ELSE FloorDiv(v(k - 2), self.base)]
         IN  Polynomial(new_coefs, ListDtypeInt(new_coefs), self.base, FALSE,
                        Some(carries))

\* The inner loop of _slow_mul: coef after "for j in range(n)".
RECURSIVE mul_coef(_, _, _, _)
mul_coef(self, other, idx, n) ==
    IF n <= 0 THEN 0
    ELSE mul_coef(self, other, idx, n - 1)
         + getitem(self, n - 1) * getitem(other, idx - (n - 1))

\* _slow_mul under check_objects.
slow_mul(self, other) ==
    IF self.err # "" THEN self
    ELSE IF other.err # "" THEN other
    ELSE IF ~check_objects(self, other) THEN Raise("AssertionError")
    ELSE LET new_len == self.deg + other.deg + 1
             coef(idx) == mul_coef(self, other, idx, idx)
             new_coefs == [k \in 1..new_len |-> PyMod(coef(k - 1), self.base)]
             carries == [k \in 1..(new_len + 1) |->
                           IF k = 1 THEN 0
                           ELSE FloorDiv(coef(k - 2), self.base)]
         IN  Polynomial(new_coefs, ListDtypeInt(new_coefs), self.base, FALSE,
                        Some(carries))

\* __mul__ under check_objects.
mul(self, other) ==
    IF self.err # "" THEN self
    ELSE IF other.err # "" THEN other
    ELSE IF ~check_objects(self, other) THEN Raise("AssertionError")
    ELSE slow_mul(self, other)

----------------------------------------------------------------------------
(* The client: what it constructs and what it calls.                       *)

Digits(bs) == (1 - bs)..(bs - 1)

SeqsUpTo(S, n) == UNION {[1..m -> S] : m \in 1..n}

\* The coefficient lists the client passes to the constructor.
RawInputs(bs) ==
    IF bs \in SmallBases THEN SeqsUpTo(Digits(bs), MaxLen) ELSE ScenarioInputs

Bases == SmallBases \cup {DefaultBase}

Init ==
    /\ base = DefaultBase
    /\ A = NoPoly /\ B = NoPoly /\ C = NoPoly
    /\ pc = "start" /\ op = "none"
    /\ res = NoPoly /\ res2 = NoPoly
    /\ exc = "" /\ key = 0 /\ val = 0 /\ old = NoPoly
    /\ q = NoPoly /\ r = NoPoly /\ q_upd = NoPoly /\ r_upd = NoPoly
    /\ deg_r = 0 /\ deg_b = 0 /\ i = 0 /\ inv_lc_b = 0
    /\ unit = 0 /\ modulus = 0 /\ inv = [err |-> "", t |-> 0]

\* The client constructs two polynomials over one base.
Construct ==
    /\ pc = "start"
    /\ \E bs \in Bases : \E ca \in RawInputs(bs), cb \in RawInputs(bs) :
         /\ base' = bs
         /\ A' = Polynomial(ca, ListDtypeInt(ca), bs, FALSE, None)
         /\ B' = Polynomial(cb, ListDtypeInt(cb), bs, FALSE, None)
    /\ pc' = "idle"
    /\ UNCHANGED <<C, op, res, res2, setVars, divVars, invVars>>

\* The client calls unit_inv directly.
UnitInv ==
    /\ pc = "start"
    /\ \E m \in 2..MaxMod : \E u \in (1 - m)..(m - 1) :
         /\ unit' = u
         /\ modulus' = m
         /\ inv' = unit_inv(u, m)
    /\ pc' = "done" /\ op' = "unit_inv"
    /\ UNCHANGED <<base, A, B, C, res, res2, setVars, divVars>>

Add ==
    /\ pc = "idle"
    /\ res' = add(A, B)
    /\ pc' = "done" /\ op' = "add"
    /\ UNCHANGED <<base, A, B, C, res2, setVars, divVars, invVars>>

Sub ==
    /\ pc = "idle"
    /\ res' = sub(A, B)
    /\ pc' = "done" /\ op' = "sub"
    /\ UNCHANGED <<base, A, B, C, res2, setVars, divVars, invVars>>

Mul ==
    /\ pc = "idle"
    /\ res' = mul(A, B)
    /\ pc' = "done" /\ op' = "mul"
    /\ UNCHANGED <<base, A, B, C, res2, setVars, divVars, invVars>>

\* (A + B) - B
AddSub ==
    /\ pc = "idle"
    /\ res' = sub(add(A, B), B)
    /\ pc' = "done" /\ op' = "addsub"
    /\ UNCHANGED <<base, A, B, C, res2, setVars, divVars, invVars>>

\* A * (B + C) and A * B + A * C, for a third operand C built from a
\* one-element list.
Distrib ==
    /\ pc = "idle"
    /\ \E cc \in SeqsUpTo(Digits(base), 1) :
         LET third == Polynomial(cc, ListDtypeInt(cc), base, FALSE, None)
         IN  /\ C' = third
             /\ res' = mul(A, add(B, third))
             /\ res2' = add(mul(A, B), mul(A, third))
    /\ pc' = "done" /\ op' = "distrib"
    /\ UNCHANGED <<base, A, B, setVars, divVars, invVars>>

\* A[k] = v, the last thing the client does with A.
SetItem ==
    /\ pc = "idle"
    /\ \E k \in 0..(MaxLen + 1) : \E v \in (-base)..base :
         LET out == setitem(A, k, v)
         IN  /\ key' = k /\ val' = v
             /\ old' = A
             /\ A' = out.p
             /\ exc' = out.err
    /\ pc' = "set_done" /\ op' = "set"
    /\ UNCHANGED <<base, B, C, res, res2, divVars, invVars>>

\* A / B up to the loop of _slow_div.
DivStart ==
    /\ pc = "idle"
    /\ LET out == unit_inv(B.lc, base)
       IN  /\ q' = Polynomial(<<0>>, TRUE, base, FALSE, None)
           /\ r' = copy(A)
           /\ deg_r' = copy(A).deg
           /\ deg_b' = B.deg
           /\ i' = 0
           /\ IF out.err # ""
              THEN /\ pc' = "done"
                   /\ res' = Raise(out.err) /\ res2' = Raise(out.err)
                   /\ inv_lc_b' = 0
              ELSE /\ pc' = "div"
                   /\ inv_lc_b' = out.t
                   /\ UNCHANGED <<res, res2>>
    /\ op' = "div"
    /\ UNCHANGED <<base, A, B, C, q_upd, r_upd, setVars, invVars>>

\* One iteration of the loop of _slow_div.
DivIter ==
    /\ pc = "div"
    /\ deg_r >= deg_b
    /\ i < MaxIter
    /\ LET q1 == IF i # 0 THEN q_upd ELSE q
           r1 == IF i # 0 THEN r_upd ELSE r
           list == Zeros(deg_r - deg_b) \o <<r1.lc * inv_lc_b>>
           tmp == Polynomial(list, TRUE, base, FALSE, None)
           qn == add(q1, tmp)
           rn == sub(r1, mul(tmp, B))
           raised == IF tmp.err # "" THEN tmp.err
                     ELSE IF qn.err # "" THEN qn.err
                     ELSE rn.err
       IN  /\ q' = q1 /\ r' = r1
           /\ IF raised # ""
              THEN /\ pc' = "done"
                   /\ res' = Raise(raised) /\ res2' = Raise(raised)
                   /\ UNCHANGED <<q_upd, r_upd, deg_r, i>>
              ELSE /\ q_upd' = qn /\ r_upd' = rn
                   /\ deg_r' = rn.deg
                   /\ i' = i + 1
                   /\ UNCHANGED <<pc, res, res2>>
    /\ UNCHANGED <<base, A, B, C, op, deg_b, inv_lc_b, setVars, invVars>>

\* The loop of _slow_div ends: return q, r.
DivReturn ==
    /\ pc = "div"
    /\ deg_r < deg_b
    /\ res' = q /\ res2' = r
    /\ pc' = "done"
    /\ UNCHANGED <<base, A, B, C, op, setVars, divVars, invVars>>

Next ==
    \/ Construct
    \/ UnitInv
    \/ Add
    \/ Sub
    \/ Mul
    \/ AddSub
    \/ Distrib
    \/ SetItem
    \/ DivStart
    \/ DivIter
    \/ DivReturn

Spec == Init /\ [][Next]_vars

----------------------------------------------------------------------------
(* What the properties below are stated in: the mathematics of the ring,   *)
(* independent of the cached fields.                                       *)

\* The coefficient of x^k in the stored sequence.
Coef(p, k) == IF k < Len(p.coefs) THEN p.coefs[k + 1] ELSE 0

\* The degree and the leading coefficient read off the trimmed sequence.
TrueDeg(p) == Len(trim_zeros(p.coefs)) - 1
TrueLc(p) ==
    LET s == trim_zeros(p.coefs) IN IF s = <<>> THEN 0 ELSE s[Len(s)]

RECURSIVE GCD(_, _)
GCD(x, y) == IF y = 0 THEN x ELSE GCD(y, x % y)

IsUnit(u, b) == GCD(Abs(u), b) = 1

\* The sum over j = 0..n of Coef(a, j) * Coef(b, idx - j).
RECURSIVE ConvUpTo(_, _, _, _)
ConvUpTo(a, b, idx, n) ==
    IF n < 0 THEN 0
    ELSE ConvUpTo(a, b, idx, n - 1) + Coef(a, n) * Coef(b, idx - n)

\* The coefficient of x^idx in the exact product of a and b, unreduced.
ExactConv(a, b, idx) == ConvUpTo(a, b, idx, idx)

\* Two results are value-equal: neither raised, same trimmed sequence,
\* same base.
ValueEqual(p, s) ==
    /\ p.err = "" /\ s.err = ""
    /\ trim_zeros(p.coefs) = trim_zeros(s.coefs)
    /\ p.base = s.base

----------------------------------------------------------------------------
(* The claims.                                                             *)

\* C1: whenever the divisor's leading coefficient is a unit modulo the
\* base, A / B returns (q, r) with A = q * B + r coefficient by coefficient
\* modulo the base and degree(r) < degree(B); in base 10, [0,0,1] / [0,1]
\* returns quotient [0,1] and remainder zero.
DivisionIdentity ==
    (pc = "done" /\ op = "div" /\ IsUnit(TrueLc(B), base)) =>
        /\ res.err = "" /\ res2.err = ""
        /\ TrueDeg(res2) < TrueDeg(B)
        /\ \A k \in 0..(Len(A.coefs) + Len(res.coefs) + Len(B.coefs)) :
             PyMod(Coef(A, k), base)
               = PyMod(ExactConv(res, B, k) + Coef(res2, k), base)
        /\ (base = DefaultBase /\ A.coefs = <<0, 0, 1>> /\ B.coefs = <<0, 1>>)
             => (res.coefs = <<0, 1>> /\ res2.coefs = <<>>)

\* C2: for every modulus b >= 2 and every u with |u| < b, unit_inv(u, b)
\* returns t with 0 <= t < b and (u * t) mod b = 1 when gcd(u, b) = 1, and
\* raises when u and b share a factor greater than 1 (u = 0 included).
UnitInvContract ==
    (pc = "done" /\ op = "unit_inv") =>
        IF IsUnit(unit, modulus)
        THEN /\ inv.err = ""
             /\ 0 <= inv.t /\ inv.t < modulus
             /\ (unit * inv.t) % modulus = 1
        ELSE inv.err # ""

\* C3: (A + B) - B is value-equal to A: it has A's trimmed coefficient
\* sequence and A's base.
AddSubInverse ==
    (pc = "done" /\ op = "addsub") => ValueEqual(res, A)

\* C4: A * B is the exact product in the ring: its coefficient at every
\* index k is (sum over j = 0..k of A[j] * B[k - j]) mod base.
MulExactProduct ==
    (pc = "done" /\ op = "mul") =>
        /\ res.err = ""
        /\ \A k \in 0..(Len(A.coefs) + Len(B.coefs)) :
             getitem(res, k) = PyMod(ExactConv(A, B, k), base)

\* C5: A * (B + C) is value-equal to A * B + A * C, with the program's own
\* multiply and add (stated for the cases where at least one side returns).
Distributive ==
    (pc = "done" /\ op = "distrib" /\ (res.err = "" \/ res2.err = "")) =>
        ValueEqual(res, res2)

\* The cached fields of a polynomial agree with its coefficient sequence.
Consistent(p) ==
    /\ p.coefs = trim_zeros(p.coefs)
    /\ p.deg = Len(p.coefs) - 1
    /\ p.lc = (IF p.deg >= 0 THEN p.coefs[p.deg + 1] ELSE 0)

\* C6: in every reachable state every polynomial has no trailing zero
\* stored, degree = length - 1, and leading coefficient = the coefficient at
\* index degree (0 for the zero polynomial).
CacheConsistent ==
    \A p \in {A, B, C, res, res2, q, r, q_upd, r_upd} :
        p.err = "" => Consistent(p)

\* C7: the carries of a polynomial returned by add, subtract or multiply
\* have length n + 1 (n the number of coefficients the operation computed),
\* entry 0 at index 0 and floor(v / base) at index k + 1, v the unreduced
\* value the operation computed at index k.
CarriesShape ==
    (pc = "done" /\ op \in {"add", "sub", "mul"} /\ res.err = "") =>
        LET n == IF op = "mul" THEN A.deg + B.deg + 1
                 ELSE Max(A.deg, B.deg) + 1
            v(k) == IF op = "add" THEN getitem(A, k) + getitem(B, k)
                    ELSE IF op = "sub" THEN getitem(A, k) - getitem(B, k)
                    ELSE mul_coef(A, B, k, k)
        IN  /\ res.carries.set
            /\ Len(res.carries.seq) = n + 1
            /\ res.carries.seq[1] = 0
            /\ \A k \in 0..(n - 1) :
                 res.carries.seq[k + 2] = FloorDiv(v(k), base)

\* C8 as the specification states it: in base 2, [1,1] + [1] gives [0,0,1]
\* with carries [0,1,1]; in base 10, [3,2,1] + [8] gives [1,3,1] with carry
\* 1 into index 1.
AddScenariosPropagated ==
    (pc = "done" /\ op = "add") =>
        /\ (base = 2 /\ A.coefs = <<1, 1>> /\ B.coefs = <<1>>) =>
             /\ res.err = ""
             /\ res.coefs = <<0, 0, 1>>
             /\ res.carries = Some(<<0, 1, 1>>)
        /\ (base = DefaultBase /\ A.coefs = <<3, 2, 1>> /\ B.coefs = <<8>>) =>
             /\ res.err = ""
             /\ res.coefs = <<1, 3, 1>>
             /\ res.carries.seq[2] = 1

\* C8, amended: addition reduces each index on its own and records the
\* carry without adding it to the next index: in base 2, [1,1] + [1] gives
\* [0,1] with carries [0,1,0]; in base 10, [3,2,1] + [8] gives [1,2,1] with
\* carries [0,1,0,0] (carry 1 into index 1).
AddScenarios ==
    (pc = "done" /\ op = "add") =>
        /\ (base = 2 /\ A.coefs = <<1, 1>> /\ B.coefs = <<1>>) =>
             /\ res.err = ""
             /\ res.coefs = <<0, 1>>
             /\ res.carries = Some(<<0, 1, 0>>)
        /\ (base = DefaultBase /\ A.coefs = <<3, 2, 1>> /\ B.coefs = <<8>>) =>
             /\ res.err = ""
             /\ res.coefs = <<1, 2, 1>>
             /\ res.carries = Some(<<0, 1, 0, 0>>)

\* The base 10 scenario of C8 has run and returned.
AddScenarioReached ==
    /\ pc = "done" /\ op = "add" /\ base = DefaultBase
    /\ A.coefs = <<3, 2, 1>> /\ B.coefs = <<8>>
    /\ res.err = "" /\ res.carries.set

\* C9: when the divisor's leading coefficient is a unit modulo the base,
\* every iteration of the division loop leaves a remainder of strictly
\* smaller degree than it found, and no iteration raises (the only
\* exception a division can end in is unit_inv's ValueError).
DivisionProgress ==
    (op = "div" /\ IsUnit(TrueLc(B), base)) =>
        /\ (pc = "div" /\ i > 0) => r_upd.deg < r.deg
        /\ pc = "done" => res.err \in {"", "ValueError"}

\* C10: a write A[k] = v with k > degree(A) and |v| < base succeeds, and
\* then A[k] = v, the indices between the old degree and k read 0, the
\* indices up to the old degree are unchanged, degree = k and leading
\* coefficient = v.
SetBeyondDegree ==
    (pc = "set_done" /\ key > old.deg /\ Abs(val) < base) =>
        /\ exc = ""
        /\ getitem(A, key) = val
        /\ \A j \in 0..key : (old.deg < j /\ j < key) => getitem(A, j) = 0
        /\ \A j \in 0..key : j <= old.deg => getitem(A, j) = getitem(old, j)
        /\ A.deg = key
        /\ A.lc = val

====
